---- MODULE Spec2Model ----
(***************************************************************************)
(* Model of the ChessGame component (src/unnamed/part_000): the React      *)
(* state (game, gameOver, moveCount, selectedOpening), the handlers onDrop *)
(* and makeAIMove (run from a 300 ms timer with the closure of the render  *)
(* that scheduled it), and the pure functions minimax, evaluateBoard,      *)
(* isEndgame and getEndgameBonus.                                          *)
(*                                                                         *)
(* The rules engine (chess.js, imported at line 2) is not part of the      *)
(* repository.  It is modelled by its interface: a position is a board     *)
(* (pieces on named squares), the side to move, the check flag and the     *)
(* undo history; the moves the engine enumerates in a position are the     *)
(* applicable moves of the side's menu, a sequence drawn at Init from the  *)
(* scenario's pool, in the engine's enumeration order.  A side none of      *)
(* whose menu moves applies has no legal move.  What move() does with an   *)
(* illegal move depends on the engine's version (it returns null or it     *)
(* throws): every call of makeAIMove may meet either.                      *)
(***************************************************************************)
EXTENDS Integers, Sequences, FiniteSets, TLC

VARIABLES rules,            \* the rules engine's move menus (fixed per behaviour)
          difficulty,       \* prop of ChessGame
          mounted,          \* the mount effect (lines 60-64) has run
          game,             \* useState(new Chess())
          gameOver,         \* useState(false)
          moveCount,        \* useState(0)
          selectedOpening,  \* useState([])
          timers,           \* pending setTimeout(makeAIMove, 300) callbacks, FIFO
          ai                \* observation of the last makeAIMove call

vars == <<rules, difficulty, mounted, game, gameOver, moveCount,
          selectedOpening, timers, ai>>

-----------------------------------------------------------------------------
(* Bounds of the model *)

\* longest move menu the engine enumerates for one side
MaxMoves == 3
\* plies after which the human stops dropping pieces
MaxPly == 3
\* pending AI timers beyond which the human stops dropping pieces
MaxPending == 2

-----------------------------------------------------------------------------
(* Program constants *)

Difficulties == {"easy", "intermediate", "hard"}

difficultyDepth == [easy |-> 1, intermediate |-> 2, hard |-> 3]

openingMoves ==
  [easy |-> << [name |-> "King's Pawn", moves |-> <<"e4", "e5">>],
               [name |-> "Queen's Pawn", moves |-> <<"d4", "d5">>],
               [name |-> "English Opening", moves |-> <<"c4">>] >>,
   intermediate |->
             << [name |-> "Ruy Lopez", moves |-> <<"e4", "e5", "Nf3", "Nc6", "Bb5">>],
                [name |-> "Sicilian Defense", moves |-> <<"e4", "c5">>],
                [name |-> "French Defense", moves |-> <<"e4", "e6">>] >>,
   hard |->  << [name |-> "Queen's Gambit", moves |-> <<"d4", "d5", "c4">>],
                [name |-> "King's Indian Defense", moves |-> <<"d4", "Nf6", "c4", "g6">>],
                [name |-> "Caro-Kann Defense", moves |-> <<"e4", "c6">>] >>]

endgamePatterns ==
  [easy |-> << [pattern |-> "rook_king_mate", pieces |-> <<"k", "r", "K">>],
               [pattern |-> "queen_mate", pieces |-> <<"k", "q", "K">>] >>,
   intermediate |->
             << [pattern |-> "two_bishops_mate", pieces |-> <<"k", "b", "b", "K">>],
                [pattern |-> "rook_bishop_mate", pieces |-> <<"k", "r", "b", "K">>] >>,
   hard |->  << [pattern |-> "queen_knight_mate", pieces |-> <<"k", "q", "n", "K">>],
                [pattern |-> "rook_knight_mate", pieces |-> <<"k", "r", "n", "K">>] >>]

\* pattern.pattern.includes('mate'): the names that contain the substring
IncludesMate(name) ==
  name \in {"rook_king_mate", "queen_mate", "two_bishops_mate",
            "rook_bishop_mate", "queen_knight_mate", "rook_knight_mate"}

pieceValues == [p |-> 100, n |-> 320, b |-> 330, r |-> 500, q |-> 900, k |-> 20000]

pawnPositionBonus ==
  << <<0,  0,  0,  0,  0,  0,  0,  0>>,
     <<50, 50, 50, 50, 50, 50, 50, 50>>,
     <<10, 10, 20, 30, 30, 20, 10, 10>>,
     <<5,  5, 10, 25, 25, 10,  5,  5>>,
     <<0,  0,  0, 20, 20,  0,  0,  0>>,
     <<5, -5,-10,  0,  0,-10, -5,  5>>,
     <<5, 10, 10,-20,-20, 10, 10,  5>>,
     <<0,  0,  0,  0,  0,  0,  0,  0>> >>

centralSquares == <<"d4", "d5", "e4", "e5">>

Max(a, b) == IF a >= b THEN a ELSE b
Min(a, b) == IF a <= b THEN a ELSE b

-----------------------------------------------------------------------------
(* The rules engine: boards, positions, moves *)

Null == [type |-> "none"]

FileNames == <<"a", "b", "c", "d", "e", "f", "g", "h">>
RankNames == <<"1", "2", "3", "4", "5", "6", "7", "8">>

\* String.fromCharCode(97 + i) + (j + 1), for i, j in 0..7
SquareName(i, j) == FileNames[i + 1] \o RankNames[j + 1]

\* a board holds, for square (i, j), the piece on it or null at 8 * i + j + 1
Cell(i, j) == 8 * i + j + 1

Cells == 1..64

\* the cell of a square given by name
CellOf == [sq \in {SquareName(i, j) : i \in 0..7, j \in 0..7} |->
             CHOOSE c \in Cells : SquareName((c - 1) \div 8, (c - 1) % 8) = sq]

Pc(sq, type, color) == [sq |-> sq, type |-> type, color |-> color]

BoardOf(pieces) ==
  [c \in Cells |->
     LET sq == SquareName((c - 1) \div 8, (c - 1) % 8)
     IN  IF \E p \in pieces : p.sq = sq
         THEN LET p == CHOOSE q \in pieces : q.sq = sq
              IN  [type |-> p.type, color |-> p.color]
         ELSE Null]

\* position.get(square): the piece on the square, or null
Get(board, sq) == board[CellOf[sq]]

Other(color) == IF color = "w" THEN "b" ELSE "w"

\* a move as the engine enumerates it (verbose form)
Mv(san, from, to, capture, promotion, check, evade) ==
  [san |-> san, from |-> from, to |-> to, capture |-> capture,
   promotion |-> promotion, check |-> check, evade |-> evade]

\* the board after a move: the piece leaves `from`, replaces whatever is on `to`
MovePiece(board, m) ==
  LET p == Get(board, m.from)
      moved == [type |-> IF m.promotion # "" THEN m.promotion ELSE p.type,
                color |-> p.color]
  IN  [board EXCEPT ![CellOf[m.from]] = Null, ![CellOf[m.to]] = moved]

Snapshot(pos) ==
  [board |-> pos.board, turn |-> pos.turn, check |-> pos.check]

\* whether a menu move can be played in the position
Applicable(pos, m) ==
  LET src == Get(pos.board, m.from)
      dst == Get(pos.board, m.to)
  IN  /\ src # Null /\ src.color = pos.turn
      /\ IF m.capture
         THEN dst # Null /\ dst.color # pos.turn /\ dst.type # "k"
         ELSE dst = Null
      /\ (m.promotion # "" => src.type = "p")
      /\ (pos.check => m.evade)

\* only the two kings, or the two kings and one minor piece
InsufficientMaterial(board) ==
  LET others == {c \in Cells : board[c] # Null /\ board[c].type # "k"}
  IN  \/ others = {}
      \/ Cardinality(others) = 1 /\ \A c \in others : board[c].type \in {"b", "n"}

\* game.moves({verbose: true}) and position.moves(): the legal moves, in order
Moves(menus, pos) ==
  LET Test(m) == Applicable(pos, m)
  IN  SelectSeq(menus[pos.turn], Test)

IsCheck(menus, pos) == pos.check
IsCheckmate(menus, pos) == pos.check /\ Len(Moves(menus, pos)) = 0
IsStalemate(menus, pos) == ~pos.check /\ Len(Moves(menus, pos)) = 0
IsDraw(menus, pos) == IsStalemate(menus, pos) \/ InsufficientMaterial(pos.board)
IsGameOver(menus, pos) == IsCheckmate(menus, pos) \/ IsDraw(menus, pos)

\* position.move(m) for a legal move m
Play(pos, m) ==
  [board |-> MovePiece(pos.board, m),
   turn  |-> Other(pos.turn),
   check |-> m.check,
   hist  |-> Append(pos.hist, Snapshot(pos))]

\* what move() answers when `found` are the legal moves that match its
\* argument: the first one is played; with none the position is left alone
\* (ok = FALSE: the engine returns null or throws, by version)
Taken(pos, found) ==
  IF Len(found) = 0 THEN [ok |-> FALSE, pos |-> pos, move |-> Null]
  ELSE [ok |-> TRUE, pos |-> Play(pos, found[1]), move |-> found[1]]

\* position.move(san): the legal move with that notation is played; an
\* illegal one leaves the position alone (ok = FALSE: the engine returns
\* null or throws, by version)
MoveSan(menus, pos, san) ==
  LET Named(m) == m.san = san
  IN  Taken(pos, SelectSeq(Moves(menus, pos), Named))

\* game.move({from, to, promotion}): the legal move between the squares; the
\* promotion piece must match when the move promotes
MoveObj(menus, pos, from, to, promotion) ==
  LET Between(m) == /\ m.from = from /\ m.to = to
                    /\ (m.promotion # "" => m.promotion = promotion)
  IN  Taken(pos, SelectSeq(Moves(menus, pos), Between))

\* position.undo(): takes back the last move of the history, if any
Undo(pos) ==
  IF Len(pos.hist) = 0 THEN pos
  ELSE LET s == pos.hist[Len(pos.hist)]
       IN  [board |-> s.board, turn |-> s.turn, check |-> s.check,
            hist |-> SubSeq(pos.hist, 1, Len(pos.hist) - 1)]

\* new Chess(position.fen()): the same position with an empty history
NewChess(pos) ==
  [board |-> pos.board, turn |-> pos.turn, check |-> pos.check, hist |-> <<>>]

\* the engine as a call sees it: the move menus, and whether move() throws
\* on an illegal move (newer engine versions) or returns null (older ones)
Engine(menus, throws) == [menus |-> menus, throws |-> throws]

-----------------------------------------------------------------------------
(* evaluateBoard, lines 182-230 *)

\* lines 208-220: the signed value of the piece on square (i, j), 0 if none
SquareValue(board, i, j) ==
  LET piece == board[Cell(i, j)]   \* position.get(SquareName(i, j))
  IN  IF piece = Null THEN 0
      ELSE LET base == pieceValues[piece.type]
               value == IF piece.type = "p"
                        THEN base + pawnPositionBonus[(IF piece.color = "w" THEN 7 - j ELSE j) + 1][i + 1]
                        ELSE base
           IN  value * (IF piece.color = "w" THEN 1 ELSE -1)

\* lines 206-222: the double loop, squares numbered k = 8 * i + j
RECURSIVE MaterialFrom(_, _)
MaterialFrom(board, k) ==
  IF k > 63 THEN 0
  ELSE SquareValue(board, k \div 8, k % 8) + MaterialFrom(board, k + 1)

evaluateBoard(eng, position) ==
  MaterialFrom(position.board, 0)
    + (IF IsCheck(eng.menus, position) THEN 50 ELSE 0)
    + (IF IsCheckmate(eng.menus, position) THEN 10000 ELSE 0)
    + (IF IsDraw(eng.menus, position) THEN 0 ELSE 0)

-----------------------------------------------------------------------------
(* isEndgame and getEndgameBonus, lines 66-101 *)

\* position.board().flat().filter(piece => piece !== null).length <= 10
isEndgame(position) ==
  LET pieces == {c \in Cells : position.board[c] # Null}
  IN  Cardinality(pieces) <= 10

\* lines 90-94: 50 for every central square that holds a black piece
RECURSIVE CentralBonus(_, _)
CentralBonus(board, k) ==
  IF k > Len(centralSquares) THEN 0
  ELSE (IF Get(board, centralSquares[k]).type # "none" /\ Get(board, centralSquares[k]).color = "b"
        THEN 50 ELSE 0) + CentralBonus(board, k + 1)

\* lines 79-97: one pattern's contribution; a throwing move() skips it
Simulated(eng, pattern, tried) ==
  IF ~tried.ok /\ eng.throws THEN 0
  ELSE (IF IncludesMate(pattern.pattern)
        THEN IF IsCheckmate(eng.menus, tried.pos) THEN 500
             ELSE IF IsCheck(eng.menus, tried.pos) THEN 200 ELSE 0
        ELSE 0)
       + CentralBonus(tried.pos.board, 1)

PatternBonus(eng, position, moveObj, pattern) ==
  Simulated(eng, pattern, MoveSan(eng.menus, NewChess(position), moveObj.san))

RECURSIVE PatternsFrom(_, _, _, _, _)
PatternsFrom(eng, position, moveObj, patterns, k) ==
  IF k > Len(patterns) THEN 0
  ELSE PatternBonus(eng, position, moveObj, patterns[k])
         + PatternsFrom(eng, position, moveObj, patterns, k + 1)

getEndgameBonus(eng, diff, position, moveObj) ==
  IF ~isEndgame(position) THEN 0
  ELSE PatternsFrom(eng, position, moveObj, endgamePatterns[diff], 1)

-----------------------------------------------------------------------------------------------------------------------------------------------------
(* minimax, lines 150-180.  A call returns its value and the shared         *)
(* position as it leaves it, with three observations: every call left the  *)
(* position as it found it (balanced), every call's maximizingPlayer flag  *)
(* told whether White was to move (flagOk), a pruning break ran (cut).     *)
(* The result of a call is handed to an operator of its own wherever the   *)
(* code names it (evaluation, value), so that it is computed once.         *)

Seen(balanced, flagOk, cut) == [balanced |-> balanced, flagOk |-> flagOk, cut |-> cut]

Both(a, b) ==
  Seen(a.balanced /\ b.balanced, a.flagOk /\ b.flagOk, a.cut \/ b.cut)

Result(val, pos, threw, seen) ==
  [val |-> val, pos |-> pos, threw |-> threw, seen |-> seen]

RECURSIVE minimax(_, _, _, _, _, _)
RECURSIVE MaxLoop(_, _, _, _, _, _, _, _, _)
RECURSIVE MinLoop(_, _, _, _, _, _, _, _, _)

\* lines 162 and 173 without position.undo()
UndoneNot(position, r) ==
  IF r.threw THEN r
  ELSE Result(r.val, r.pos, FALSE,
              Seen(r.seen.balanced /\ r.pos = position, r.seen.flagOk, r.seen.cut))

\* lines 162 and 173: position.undo() after the recursive call returned r
Undone(position, r) ==
  IF r.threw THEN r
  ELSE Result(r.val, Undo(r.pos), FALSE,
              Seen(r.seen.balanced /\ Undo(r.pos) = position, r.seen.flagOk, r.seen.cut))

\* lines 160-161 and 171-172: after position.move(move) returned `made`
Searched(eng, position, made, depth, maximizingPlayer, alpha, beta) ==
  IF ~made.ok /\ eng.throws
  THEN Result(0, position, TRUE, Seen(TRUE, TRUE, FALSE))
  ELSE Undone(position, minimax(eng, made.pos, depth, maximizingPlayer, alpha, beta))

\* lines 160-162 and 171-173: position.move(move); minimax(...); position.undo()
SearchChild(eng, position, move, depth, maximizingPlayer, alpha, beta) ==
  Searched(eng, position, MoveSan(eng.menus, position, move),
           depth, maximizingPlayer, alpha, beta)

\* lines 163-165, with r the child's result
MaxStep(eng, depth, possibleMoves, i, alpha, beta, maxEval, seen, r) ==
  IF r.threw THEN Result(maxEval, r.pos, TRUE, Both(seen, r.seen))
  ELSE IF beta <= Max(alpha, r.val)
       THEN Result(Max(maxEval, r.val), r.pos, FALSE,
                   Seen(seen.balanced /\ r.seen.balanced, seen.flagOk /\ r.seen.flagOk, TRUE))
       ELSE MaxLoop(eng, r.pos, depth, possibleMoves, i + 1, Max(alpha, r.val), beta,
                    Max(maxEval, r.val), Both(seen, r.seen))

\* lines 158-167
MaxLoop(eng, position, depth, possibleMoves, i, alpha, beta, maxEval, seen) ==
  IF i > Len(possibleMoves) THEN Result(maxEval, position, FALSE, seen)
  ELSE MaxStep(eng, depth, possibleMoves, i, alpha, beta, maxEval, seen,
               SearchChild(eng, position, possibleMoves[i], depth - 1, FALSE, alpha, beta))

\* lines 174-176, with r the child's result
MinStep(eng, depth, possibleMoves, i, alpha, beta, minEval, seen, r) ==
  IF r.threw THEN Result(minEval, r.pos, TRUE, Both(seen, r.seen))
  ELSE IF Min(beta, r.val) <= alpha
       THEN Result(Min(minEval, r.val), r.pos, FALSE,
                   Seen(seen.balanced /\ r.seen.balanced, seen.flagOk /\ r.seen.flagOk, TRUE))
       ELSE MinLoop(eng, r.pos, depth, possibleMoves, i + 1, alpha, Min(beta, r.val),
                    Min(minEval, r.val), Both(seen, r.seen))

\* lines 169-178
MinLoop(eng, position, depth, possibleMoves, i, alpha, beta, minEval, seen) ==
  IF i > Len(possibleMoves) THEN Result(minEval, position, FALSE, seen)
  ELSE MinStep(eng, depth, possibleMoves, i, alpha, beta, minEval, seen,
               SearchChild(eng, position, possibleMoves[i], depth - 1, TRUE, alpha, beta))

\* position.moves(): the legal moves in standard algebraic notation
SanOf(legal) == [i \in 1..Len(legal) |-> legal[i].san]

SanMoves(eng, position) == SanOf(Moves(eng.menus, position))

\* the observations of a call that has only been entered
Entered(position, maximizingPlayer) ==
  Seen(TRUE, maximizingPlayer = (position.turn = "w"), FALSE)

minimax(eng, position, depth, maximizingPlayer, alpha, beta) ==
  IF depth = 0
  THEN Result(evaluateBoard(eng, position), position, FALSE,
              Entered(position, maximizingPlayer))
  ELSE IF maximizingPlayer
       THEN MaxLoop(eng, position, depth, SanMoves(eng, position), 1, alpha, beta, -9999,
                    Entered(position, maximizingPlayer))
       ELSE MinLoop(eng, position, depth, SanMoves(eng, position), 1, alpha, beta, 9999,
                    Entered(position, maximizingPlayer))

-----------------------------------------------------------------------------
(* makeAIMove, lines 103-148 *)

\* line 106 without the isGameOver and isDraw tests
TerminalNoMoves(eng, position, possibleMoves) == Len(possibleMoves) = 0

\* line 106
Terminal(eng, position, possibleMoves) ==
  \/ IsGameOver(eng.menus, position)
  \/ IsDraw(eng.menus, position)
  \/ Len(possibleMoves) = 0

\* lines 112-124: the book move at the closure's moveCount, if the engine takes it
BookMove(eng, position, count, opening) ==
  IF count < Len(opening)
  THEN MoveSan(eng.menus, position, opening[count + 1])
  ELSE [ok |-> FALSE, pos |-> position, move |-> Null]

\* lines 137-140 with > for >=
BetterStrict(value, bestValue) == value > bestValue

\* lines 137-140: the candidate replaces the best one when value >= bestValue
Better(value, bestValue) == value >= bestValue

Scored(value, eval, bonus, pos, threw, seen) ==
  [value |-> value, eval |-> eval, bonus |-> bonus, pos |-> pos, threw |-> threw,
   seen |-> seen]

\* lines 133-135 without game.undo()
RootValueKept(position, r, bonus) ==
  Scored(r.val + bonus, r.val, bonus, r.pos, r.threw,
         Seen(r.seen.balanced /\ r.pos = position, r.seen.flagOk, r.seen.cut))

\* lines 133-135: the value of the candidate, r being minimax's result on the
\* position the candidate leads to and bonus what getEndgameBonus says of
\* that same position; then game.undo()
RootValue(position, r, bonus) ==
  Scored(r.val + bonus, r.val, bonus, IF r.threw THEN r.pos ELSE Undo(r.pos), r.threw,
         Seen(r.seen.balanced /\ Undo(r.pos) = position, r.seen.flagOk, r.seen.cut))

\* lines 133-134, after game.move(move) returned `made`
RootScored(eng, diff, position, move, made) ==
  IF ~made.ok /\ eng.throws
  THEN Scored(0, 0, 0, position, TRUE, Seen(TRUE, TRUE, FALSE))
  ELSE RootValue(position,
                 minimax(eng, made.pos, difficultyDepth[diff] - 1, FALSE, -10000, 10000),
                 getEndgameBonus(eng, diff, made.pos, move))

\* lines 132-135: game.move(move); minimax + getEndgameBonus; game.undo()
RootChild(eng, diff, position, move) ==
  RootScored(eng, diff, position, move,
             MoveObj(eng.menus, position, move.from, move.to, move.promotion))

RECURSIVE RootLoop(_, _, _, _, _, _)

\* lines 137-140, with c the candidate's score
RootStep(eng, diff, possibleMoves, i, acc, c) ==
  IF c.threw
  THEN [acc EXCEPT !.threw = TRUE, !.pos = c.pos, !.seen = Both(acc.seen, c.seen)]
  ELSE RootLoop(eng, diff, c.pos, possibleMoves, i + 1,
         [acc EXCEPT
            !.seen = Both(acc.seen, c.seen),
            !.values = Append(@, c.value),
            !.evals = Append(@, c.eval),
            !.bonuses = Append(@, c.bonus),
            !.bestValue = IF Better(c.value, acc.bestValue) THEN c.value ELSE @,
            !.bestMove = IF Better(c.value, acc.bestValue) THEN possibleMoves[i] ELSE @])

\* lines 128-141: the loop over possibleMoves from index i on
RootLoop(eng, diff, position, possibleMoves, i, acc) ==
  IF i > Len(possibleMoves) THEN [acc EXCEPT !.pos = position]
  ELSE RootStep(eng, diff, possibleMoves, i, acc,
                RootChild(eng, diff, position, possibleMoves[i]))

\* lines 128-129
RootStart(position) ==
  [bestMove |-> Null, bestValue |-> -9999, pos |-> position, threw |-> FALSE,
   values |-> <<>>, evals |-> <<>>, bonuses |-> <<>>, seen |-> Seen(TRUE, TRUE, FALSE)]

\* What one call of makeAIMove does:
\*   kind     "over" (line 107), "book" (117-119), "search" (144-146),
\*            "none" (bestMove is null), "threw" (an uncaught exception)
\*   played   setGame(new Chess(game.fen())) and setMoveCount were called
\*   game     the closure's game object as the call leaves it
\*   move     the move handed to game.move, moved: the engine took it
\*   loop     what the root loop computed
Outcome(kind, played, position, move, moved, loop) ==
  [kind |-> kind, played |-> played, game |-> position, move |-> move,
   moved |-> moved, loop |-> loop]

\* lines 143-147, after game.move(bestMove) returned `last`
Played(eng, loop, last) ==
  IF ~last.ok /\ eng.throws
  THEN Outcome("threw", FALSE, loop.pos, loop.bestMove, FALSE, loop)
  ELSE Outcome("search", TRUE, last.pos, loop.bestMove, last.ok, loop)

\* lines 143-147, loop being what lines 127-141 computed
Chosen(eng, loop) ==
  IF loop.threw THEN Outcome("threw", FALSE, loop.pos, Null, FALSE, loop)
  ELSE IF loop.bestMove = Null THEN Outcome("none", FALSE, loop.pos, Null, FALSE, loop)
  ELSE Played(eng, loop,
              MoveObj(eng.menus, loop.pos, loop.bestMove.from, loop.bestMove.to,
                      loop.bestMove.promotion))

\* lines 112-147, book being what game.move(openingMove) returned
Booked(eng, diff, position, possibleMoves, book) ==
  IF book.ok
  THEN Outcome("book", TRUE, book.pos, book.move, TRUE, RootStart(position))
  ELSE Chosen(eng, RootLoop(eng, diff, position, possibleMoves, 1, RootStart(position)))

\* lines 104-147 for the closure c = [game, moveCount, selectedOpening] of the
\* render that scheduled the call, possibleMoves being game.moves({verbose: true})
Guarded(eng, diff, c, possibleMoves) ==
  IF Terminal(eng, c.game, possibleMoves)
  THEN Outcome("over", FALSE, c.game, Null, FALSE, RootStart(c.game))
  ELSE Booked(eng, diff, c.game, possibleMoves,
              BookMove(eng, c.game, c.moveCount, c.selectedOpening))

makeAIMove(eng, diff, c) == Guarded(eng, diff, c, Moves(eng.menus, c.game))

-----
(* Positions the game can be in when play is picked up, each with the pool *)
(* of moves the engine's menus are drawn from and the plies played so far  *)

BackRank == <<"r", "n", "b", "q", "k", "b", "n", "r">>

\* new Chess(): the standard starting position
StartBoard ==
  BoardOf(UNION {{Pc(FileNames[f] \o "1", BackRank[f], "w"), Pc(FileNames[f] \o "2", "p", "w"),
          Pc(FileNames[f] \o "7", "p", "b"), Pc(FileNames[f] \o "8", BackRank[f], "b")}
         : f \in 1..8})

Opening ==
  [board |-> StartBoard, plies |-> 0,
   w |-> {Mv("e4", "e2", "e4", FALSE, "", FALSE, FALSE),
          Mv("e5", "e4", "e5", FALSE, "", FALSE, FALSE),
          Mv("Nf3", "g1", "f3", FALSE, "", FALSE, FALSE)},
   b |-> {Mv("c5", "c7", "c5", FALSE, "", FALSE, FALSE),
          Mv("c4", "c5", "c4", FALSE, "", FALSE, FALSE),
          Mv("Nf6", "g8", "f6", FALSE, "", FALSE, FALSE)}]

\* ten pieces; either side's rook mates on the back rank (the pawns on c6
\* and d5 keep the other rook from interposing)
RookEnding ==
  [board |-> BoardOf({Pc("h1", "k", "w"), Pc("g2", "p", "w"), Pc("h2", "p", "w"), Pc("d7", "r", "w"),
              Pc("h8", "k", "b"), Pc("g7", "p", "b"), Pc("h7", "p", "b"), Pc("c2", "r", "b"),
              Pc("d5", "p", "b"), Pc("c6", "p", "b")}),
   plies |-> 60,
   w |-> {Mv("Rd8", "d7", "d8", FALSE, "", TRUE, FALSE),
          Mv("Rd6", "d7", "d6", FALSE, "", FALSE, FALSE)},
   b |-> {Mv("Rc1", "c2", "c1", FALSE, "", TRUE, FALSE),
          Mv("c5", "c6", "c5", FALSE, "", FALSE, FALSE),
          Mv("Rb2", "c2", "b2", FALSE, "", FALSE, FALSE),
          Mv("Ra2", "c2", "a2", FALSE, "", FALSE, FALSE)}]

\* Black has promoted every pawn and lost nothing; White has king and pawn
QueenArmy ==
  [board |-> BoardOf({Pc("b1", "k", "w"), Pc("g2", "p", "w"), Pc("e8", "k", "b"),
              Pc("a7", "r", "b"), Pc("b7", "n", "b"), Pc("c7", "b", "b"), Pc("d7", "q", "b"),
              Pc("e7", "q", "b"), Pc("f7", "b", "b"), Pc("g7", "n", "b"), Pc("h7", "r", "b"),
              Pc("a8", "q", "b"), Pc("b8", "q", "b"), Pc("c8", "q", "b"), Pc("d8", "q", "b"),
              Pc("f8", "q", "b"), Pc("g8", "q", "b"), Pc("h8", "q", "b")}),
   plies |-> 120,
   w |-> {Mv("Kc1", "b1", "c1", FALSE, "", FALSE, TRUE),
          Mv("g3", "g2", "g3", FALSE, "", FALSE, FALSE),
          Mv("g4", "g2", "g4", FALSE, "", FALSE, FALSE)},
   b |-> {Mv("Qd5", "d7", "d5", FALSE, "", FALSE, FALSE),
          Mv("Qe5", "e7", "e5", FALSE, "", FALSE, FALSE)}]

\* king against king and pawn: taking the pawn leaves a dead draw
PawnEnding ==
  [board |-> BoardOf({Pc("b3", "k", "w"), Pc("h8", "k", "b"), Pc("a3", "p", "b")}),
   plies |-> 90,
   w |-> {Mv("Kxa3", "b3", "a3", TRUE, "", FALSE, TRUE),
          Mv("Kc3", "b3", "c3", FALSE, "", FALSE, TRUE)},
   b |-> {Mv("Kg8", "h8", "g8", FALSE, "", FALSE, TRUE),
          Mv("a2", "a3", "a2", FALSE, "", FALSE, FALSE)}]

Scenarios == {Opening, RookEnding, QueenArmy, PawnEnding}

\* the orders in which the engine may enumerate up to MaxMoves moves of a pool
MenusOf(pool) ==
  UNION {{m \in [1..n -> pool] : \A i, k \in 1..n : i # k => m[i] # m[k]}
         : n \in 1..MaxMoves}

\* the drags tried: the from and to squares of the menus' moves, whether
\* or not the move is legal in the position at hand
DropPairs(menus) ==
  {<<menus.w[i].from, menus.w[i].to>> : i \in 1..Len(menus.w)}
    \cup {<<menus.b[i].from, menus.b[i].to>> : i \in 1..Len(menus.b)}

Lines(diff) == {openingMoves[diff][k].moves : k \in 1..Len(openingMoves[diff])}

\* In a game picked up after the opening, which line was drawn at mount no
\* longer matters (every line is shorter than the plies played): the first
DrawnLine(diff) == openingMoves[diff][1].moves

NoCall ==
  [kind |-> "idle", start |-> [board |-> BoardOf({}), turn |-> "w", check |-> FALSE, hist |-> <<>>],
   index |-> 0, counter |-> 0, fresh |-> TRUE,
   out |-> Outcome("idle", FALSE, [board |-> BoardOf({}), turn |-> "w", check |-> FALSE, hist |-> <<>>],
                   Null, FALSE,
                   RootStart([board |-> BoardOf({}), turn |-> "w", check |-> FALSE, hist |-> <<>>]))]

-----------------------------------------------------------------------------
(* The component *)

Init ==
  \E sc \in Scenarios :
    \E mw \in MenusOf(sc.w), mb \in MenusOf(sc.b) :
      /\ rules = [w |-> mw, b |-> mb, plies |-> sc.plies]
      /\ game = [board |-> sc.board, turn |-> "w", check |-> FALSE, hist |-> <<>>]
      /\ Len(Moves(rules, game)) > 0
      /\ difficulty \in Difficulties
      /\ moveCount = sc.plies
      /\ mounted = (sc.plies > 0)
      /\ selectedOpening = IF sc.plies = 0 THEN <<>> ELSE DrawnLine(difficulty)
      /\ gameOver = FALSE
      /\ timers = <<>>
      /\ ai = NoCall

\* lines 60-64: the mount effect picks the game's opening line
SelectOpening ==
  /\ ~mounted
  /\ mounted' = TRUE
  /\ selectedOpening' \in Lines(difficulty)
  /\ UNCHANGED <<rules, difficulty, game, gameOver, moveCount, timers, ai>>

\* lines 251-255: the effect that follows every render with a new game
GameOverEffect(position, flag) == flag \/ IsGameOver(rules, position)

HumanPlays ==
  /\ mounted
  /\ moveCount - rules.plies < MaxPly
  /\ Len(timers) < MaxPending

\* lines 232-249, a drop the engine accepts: the render's game object takes
\* the move, a copy becomes the state, and makeAIMove is scheduled with the
\* closure of this render (the mutated object, the moveCount and line of
\* this render)
onDropAccepted(from, to) ==
  LET made == MoveObj(rules, game, from, to, "q")
  IN  /\ HumanPlays
      /\ made.ok
      /\ game' = NewChess(made.pos)
      /\ moveCount' = moveCount + 1
      /\ timers' = Append(timers, [game |-> made.pos, moveCount |-> moveCount,
                                   selectedOpening |-> selectedOpening])
      /\ gameOver' = GameOverEffect(game', gameOver)
      /\ UNCHANGED <<rules, difficulty, mounted, selectedOpening, ai>>

\* lines 240 and 246-248: a drop the engine rejects; onDrop returns false
onDropRejected(from, to) ==
  /\ HumanPlays
  /\ ~MoveObj(rules, game, from, to, "q").ok
  /\ UNCHANGED vars

onDrop == \E d \in DropPairs(rules) : onDropAccepted(d[1], d[2]) \/ onDropRejected(d[1], d[2])

\* the state after makeAIMove returned `out` for the closure c
Returned(c, out) ==
  /\ timers' = Tail(timers)
  /\ game' = IF out.played THEN NewChess(out.game) ELSE game
  /\ moveCount' = IF out.played THEN moveCount + 1 ELSE moveCount
  /\ gameOver' = IF out.kind = "over" THEN TRUE ELSE GameOverEffect(game', gameOver)
  /\ ai' = [kind |-> out.kind, start |-> c.game, index |-> c.moveCount,
            counter |-> moveCount, fresh |-> (NewChess(c.game) = game), out |-> out]

\* the oldest timer fires: makeAIMove runs to completion on its closure
TimerFires ==
  /\ Len(timers) > 0
  /\ \E throws \in BOOLEAN :
       Returned(Head(timers), makeAIMove(Engine(rules, throws), difficulty, Head(timers)))
  /\ UNCHANGED <<rules, difficulty, mounted, selectedOpening>>

Next == SelectOpening \/ onDrop \/ TimerFires

Spec == Init /\ [][Next]_vars

-----------------------------------------------------------------------------
(* Properties.  `ai` describes the last call of makeAIMove: the closure's   *)
(* position (start) and moveCount (index) it ran with, the state's         *)
(* moveCount when it ran (counter), and what it did (out).                  *)

\* the moves the engine enumerated at the start of the last call
Enumerated == Moves(rules, ai.start)

\* the last call reached the root search (no book move, game not over)
Searching == ai.kind \in {"search", "none", "threw"}

\* minimax without the pruning break: the same recursion over every move
RECURSIVE exhaustive(_, _, _, _)
RECURSIVE ExhaustiveLoop(_, _, _, _, _, _)

ExhaustiveLoop(eng, position, depth, maximizingPlayer, legal, i) ==
  IF i > Len(legal) THEN (IF maximizingPlayer THEN -9999 ELSE 9999)
  ELSE LET child == exhaustive(eng, Play(position, legal[i]), depth - 1, ~maximizingPlayer)
           rest == ExhaustiveLoop(eng, position, depth, maximizingPlayer, legal, i + 1)
       IN  IF maximizingPlayer THEN Max(child, rest) ELSE Min(child, rest)

exhaustive(eng, position, depth, maximizingPlayer) ==
  IF depth = 0 THEN evaluateBoard(eng, position)
  ELSE ExhaustiveLoop(eng, position, depth, maximizingPlayer, Moves(eng.menus, position), 1)

\* C1: for every candidate of the root loop, minimax called with alpha =
\* -10000 and beta = 10000 returns the value of the same recursion without
\* the pruning break.
C1_PruningKeepsValue ==
  Searching /\ ~ai.out.loop.threw =>
    \A i \in 1..Len(ai.out.loop.evals) :
      ai.out.loop.evals[i] =
        exhaustive(Engine(rules, FALSE), Play(ai.start, Enumerated[i]),
                   difficultyDepth[difficulty] - 1, FALSE)

\* the step in which the oldest timer fires
Fires == Len(timers) > 0 /\ timers' = Tail(timers)

\* C2: a move makeAIMove applies, from the book or from the search, is one of
\* the legal moves of the position the call started with, and the game is
\* left in the position that move leads to from there.
C2_AppliedMoveIsLegal ==
  [][Fires /\ ai'.out.played =>
       /\ \E i \in 1..Len(Moves(rules, Head(timers).game)) :
            Moves(rules, Head(timers).game)[i] = ai'.out.move
       /\ ai'.out.moved
       /\ game' = NewChess(Play(Head(timers).game, ai'.out.move))]_vars

C2_Witness ==
  /\ ai.kind = "book" /\ ai.out.played
  /\ ai.fresh /\ ai.start.turn = "b"

\* C3: every call of minimax and every pass of the root loop leaves the
\* shared position as it found it (each move applied is undone once, last
\* applied first), also when a loop exits through the pruning break; when
\* the root loop has scored every candidate the position is the one the
\* call started with.
C3_SearchRestoresPosition ==
  Searching =>
    /\ ai.kind # "threw"
    /\ ai.out.loop.seen.balanced
    /\ ai.out.loop.pos = ai.start

C3_Witness ==
  /\ ai.kind = "search"
  /\ ai.out.loop.seen.cut
  /\ Len(ai.out.loop.values) >= 2
  /\ ai.out.loop.pos = ai.start

\* C4: with no book move played and exactly one legal move, makeAIMove plays
\* that move whatever its score.
C4_SoleMoveIsPlayed ==
  Searching /\ Len(Enumerated) = 1 =>
    ai.out.played /\ ai.out.move = Enumerated[1]

\* the candidates whose combined score is the highest of the root loop
Maximal(values) == {i \in 1..Len(values) : \A k \in 1..Len(values) : values[k] <= values[i]}

\* C5: when the root search selects a move and two or more candidates share
\* the highest combined score, the move selected is the last of them in the
\* engine's enumeration order.
C5_LastMaximalWins ==
  ai.kind = "search" /\ Cardinality(Maximal(ai.out.loop.values)) >= 2 =>
    \E i \in Maximal(ai.out.loop.values) :
      /\ \A k \in Maximal(ai.out.loop.values) : k <= i
      /\ ai.out.move = Enumerated[i]

C5_Witness ==
  /\ ai.kind = "search"
  /\ Cardinality(Maximal(ai.out.loop.values)) >= 2
  /\ Cardinality(Maximal(ai.out.loop.values)) < Len(ai.out.loop.values)

\* C6: at difficulty easy with at most ten pieces on the board, the score of
\* a candidate that checkmates holds the evaluator's 10000 and a bonus of at
\* least 500 from getEndgameBonus.
C6_MateScoreHasBonus ==
  Searching /\ ~ai.out.loop.threw /\ difficulty = "easy" /\ isEndgame(ai.start) =>
    \A i \in 1..Len(ai.out.loop.values) :
      IsCheckmate(rules, Play(ai.start, Enumerated[i])) =>
        /\ ai.out.loop.bonuses[i] >= 500
        /\ ai.out.loop.evals[i] >= MaterialFrom(Play(ai.start, Enumerated[i]).board, 0) + 10000
        /\ ai.out.loop.values[i] = ai.out.loop.evals[i] + ai.out.loop.bonuses[i]

\* the position the firing call runs on has no legal move, or is over or drawn
FiresOnTerminal ==
  /\ Fires
  /\ \/ Len(Moves(rules, Head(timers).game)) = 0
     \/ IsGameOver(rules, Head(timers).game)

\* C7: makeAIMove on a position with no legal moves (or one that is over or
\* drawn) sets the game-over flag and applies no move: the position and the
\* move counter stay, and a position that was checkmate still reports it.
C7_TerminalSetsGameOver ==
  [][FiresOnTerminal =>
       /\ gameOver'
       /\ game' = game
       /\ moveCount' = moveCount
       /\ ai'.kind = "over"
       /\ ai'.out.game = Head(timers).game
       /\ (IsCheck(rules, Head(timers).game) => IsCheckmate(rules, ai'.out.game))]_vars

C7_Witness ==
  /\ ai.kind = "over"
  /\ gameOver
  /\ IsCheck(rules, ai.start) /\ Len(Enumerated) = 0
  /\ IsCheckmate(rules, ai.out.game)

\* C8: the move counter grows by exactly one with every ply played, and the
\* index makeAIMove looks the book move up with is the move counter as it
\* stands when the AI moves.
C8_CounterIndexesBook ==
  [][/\ (game' # game => moveCount' = moveCount + 1)
     /\ (moveCount' # moveCount => moveCount' = moveCount + 1 /\ game' # game)
     /\ (Fires => Head(timers).moveCount = moveCount)]_vars

\* C9: human and AI moves alternate: at most one AI turn is pending, and an
\* AI turn runs on the position that holds every move accepted so far.
C9_TurnsAlternate ==
  /\ Len(timers) <= 1
  /\ (ai.kind # "idle" => ai.fresh)

\* C10: with the AI replying as Black, every call of minimax is passed
\* maximizingPlayer = TRUE exactly when White is to move in its position.
C10_FlagIsSideToMove ==
  Searching /\ ai.start.turn = "b" => ai.out.loop.seen.flagOk

====
